---- MODULE Spec2Model ----
(***************************************************************************)
(* Model of src/main.py: the YouTube helper backend.  The state is the     *)
(* module-level TTL cache (_cache), the module-level credential            *)
(* (YOUTUBE_API_KEY), the process environment and the wall clock.  Every   *)
(* endpoint handler is one action; the upstream client functions it calls  *)
(* are operators that thread the cache and the credential through.         *)
(*                                                                         *)
(* Python values are tagged records [t, v]: None, str (a tuple of          *)
(* one-character strings), list (a tuple) and dict (a record), so that     *)
(* Python truthiness ("if cached:") can be computed as the code does.      *)
(***************************************************************************)
EXTENDS Integers, Sequences, FiniteSets, TLC

VARIABLES
    _cache,           \* main.py:79   dict key -> {"ts", "data"}
    YOUTUBE_API_KEY,  \* main.py:75   module global, set at import
    env,              \* os.environ["YOUTUBE_API_KEY"] (None when unset)
    clock,            \* time.time(), in seconds
    req,              \* the last request received
    log,              \* the upstream client calls of the last request, in order
    resp,             \* the response of the last request
    fetched,          \* history: key -> time and value of its last successful fetch
    lastResolve,      \* history: key -> the previous resolve call for that key
    nreq,             \* requests served so far
    nticks,           \* clock steps taken so far
    threads,          \* concurrent cache accesses: thread -> its position and locals
    written,          \* history: key -> the last entry stored by a concurrent _cache_set
    trial             \* a function under test: its inputs and its result

vars == <<_cache, YOUTUBE_API_KEY, env, clock, req, log, resp, fetched,
          lastResolve, nreq, nticks, threads, written, trial>>

-----------------------------------------------------------------------------
(* Bounds of the model *)

MaxRequests == 2
MaxTicks == 1
PoolSize == 2

-----------------------------------------------------------------------------
(* Python values *)

None == [t |-> "none", v |-> <<>>]
Str(s) == [t |-> "str", v |-> s]
List(xs) == [t |-> "list", v |-> xs]
Dict(r) == [t |-> "dict", v |-> r]

\* bool(x): None, "" and [] are falsy; the dicts of this program are never empty
Truthy(x) ==
    CASE x.t = "none" -> FALSE
      [] x.t = "dict" -> TRUE
      [] OTHER -> Len(x.v) > 0

Digits == <<"0", "1", "2", "3", "4", "5", "6", "7", "8", "9">>

RECURSIVE NatToStr(_)
NatToStr(n) ==
    IF n < 10 THEN <<Digits[n + 1]>>
    ELSE NatToStr(n \div 10) \o <<Digits[(n % 10) + 1]>>

\* str(n) as an f-string formats an int
IntToStr(n) == IF n < 0 THEN <<"-">> \o NatToStr(0 - n) ELSE NatToStr(n)

UpperChars == <<"A", "B", "C", "D", "E", "F", "G", "H", "I", "J", "K", "L", "M",
                "N", "O", "P", "Q", "R", "S", "T", "U", "V", "W", "X", "Y", "Z">>
LowerChars == <<"a", "b", "c", "d", "e", "f", "g", "h", "i", "j", "k", "l", "m",
                "n", "o", "p", "q", "r", "s", "t", "u", "v", "w", "x", "y", "z">>

LowerChar(c) ==
    IF \E i \in 1..26 : UpperChars[i] = c
    THEN LowerChars[CHOOSE i \in 1..26 : UpperChars[i] = c]
    ELSE c

\* str.lower()
Lower(s) == [i \in 1..Len(s) |-> LowerChar(s[i])]

RECURSIVE LStrip(_, _)
LStrip(s, ch) ==
    IF s # <<>> /\ Head(s) = ch THEN LStrip(Tail(s), ch) ELSE s

RECURSIVE RStrip(_, _)
RStrip(s, ch) ==
    IF s # <<>> /\ s[Len(s)] = ch THEN RStrip(SubSeq(s, 1, Len(s) - 1), ch) ELSE s

\* str.strip(ch): removes every leading and every trailing ch
Strip(s, ch) == RStrip(LStrip(s, ch), ch)

-----------------------------------------------------------------------------
(* The TTL cache, main.py:78-94 *)

CACHE_TTL_SECONDS == 20 * 60

\* dict.pop(key, None)
DictPop(c, key) == [k \in (DOMAIN c) \ {key} |-> c[k]]

\* d[key] = value
DictPut(c, key, value) ==
    [k \in (DOMAIN c) \cup {key} |-> IF k = key THEN value ELSE c[k]]

\* Mutant: the operands of the age test swapped, so that no entry ever expires
_cache_get_swapped(c, key, now) ==
    IF key \notin DOMAIN c
    THEN [data |-> None, cache |-> c]
    ELSE IF c[key].ts - now > CACHE_TTL_SECONDS
         THEN [data |-> None, cache |-> DictPop(c, key)]
         ELSE [data |-> c[key].data, cache |-> c]

\* Mutant: ">=" for ">", so that an entry exactly one TTL old is evicted
_cache_get_ge(c, key, now) ==
    IF key \notin DOMAIN c
    THEN [data |-> None, cache |-> c]
    ELSE IF now - c[key].ts >= CACHE_TTL_SECONDS
         THEN [data |-> None, cache |-> DictPop(c, key)]
         ELSE [data |-> c[key].data, cache |-> c]

\* Mutant: an expired lookup sweeps every expired entry out of the cache
_cache_get_sweep(c, key, now) ==
    IF key \notin DOMAIN c
    THEN [data |-> None, cache |-> c]
    ELSE IF now - c[key].ts > CACHE_TTL_SECONDS
         THEN [data |-> None,
               cache |-> [k \in {j \in DOMAIN c : now - c[j].ts <= CACHE_TTL_SECONDS}
                             |-> c[k]]]
         ELSE [data |-> c[key].data, cache |-> c]

\* An entry is a two-key dict, hence truthy: "if not entry" is "key not in _cache".
\* Returns the data (None when absent or expired) and the cache after the call.
_cache_get(c, key, now) ==
    IF key \notin DOMAIN c
    THEN [data |-> None, cache |-> c]
    ELSE IF now - c[key].ts > CACHE_TTL_SECONDS
         THEN [data |-> None, cache |-> DictPop(c, key)]
         ELSE [data |-> c[key].data, cache |-> c]

_cache_set(c, key, data, now) == DictPut(c, key, [ts |-> now, data |-> data])

-----------------------------------------------------------------------------
(* The credential gate, main.py:97-104 *)

\* k is the global YOUTUBE_API_KEY, e the value os.getenv returns now
_ensure_api_key(k, e) ==
    LET k1 == IF ~Truthy(k) THEN e ELSE k
    IN  [ok |-> Truthy(k1), key |-> k1]

-----------------------------------------------------------------------------
(* What the upstream API may answer.  A response is its status code and the *)
(* "items" of its JSON body.                                                *)

\* a response that is not a success (quota exceeded, bad request, outage)
UpstreamFailure == [status |-> 500, items |-> <<>>]

NoItems == [status |-> 200, items |-> <<>>]

\* channel ids the upstream knows
UpstreamChannelIds == {<<"X">>, <<"Y">>}

\* channels.list?forHandle=...: an error, no match, or one channel
ResolveResponses ==
    {UpstreamFailure, NoItems}
        \cup {[status |-> 200, items |-> <<[id |-> c]>>] : c \in UpstreamChannelIds}

\* channels.list?part=statistics,snippet: an error, no match, or one channel
StatsResponses ==
    {UpstreamFailure, NoItems,
     [status |-> 200,
      items |-> <<[statistics |-> [subscriberCount |-> 7, viewCount |-> 9, videoCount |-> 1],
                   title |-> "T"]>>]}

\* channels.list?part=contentDetails: an error, no match, a channel without an
\* uploads playlist, or a channel with one
UploadsResponses ==
    {UpstreamFailure, NoItems,
     [status |-> 200, items |-> <<[uploads |-> None]>>],
     [status |-> 200, items |-> <<[uploads |-> Str(<<"U", "U">>)]>>]}

VideoId(i) == <<"v">> \o IntToStr(i)

\* the i newest videos of a channel, newest first
Newest(n) == [i \in 1..n |-> [videoId |-> VideoId(i)]]

Min(a, b) == IF a < b THEN a ELSE b

\* search.list?order=date&maxResults=n: the API accepts n in 0..50 and answers
\* with at most n items; any other n is a bad request
SearchResponses(n) ==
    IF n < 0 \/ n > 50 THEN {UpstreamFailure}
    ELSE {UpstreamFailure}
            \cup {[status |-> 200, items |-> Newest(i)] : i \in 0..Min(n, PoolSize)}

ViewCounts == {1, 2}

\* videos.list?id=...: an error, or one item with its view count per id asked
VideosResponses(ids) ==
    {UpstreamFailure}
        \cup {[status |-> 200,
               items |-> [i \in 1..Len(ids) |-> [id |-> ids[i], viewCount |-> f[i]]]] :
                 f \in [1..Len(ids) -> ViewCounts]}

-----------------------------------------------------------------------------
(* The upstream client, main.py:107-308.  Each operation takes its          *)
(* arguments, the cache c, the global credential k, the environment's       *)
(* credential e, the time now and the upstream's answer r (read only if the *)
(* request is sent).  It returns a record: the cache and credential after   *)
(* the call, ok/status/val (the return value, or the HTTPException raised)  *)
(* and what the call did: http (requests sent), gets and sets (cache        *)
(* lookups and stores), hit (returned the cached value), ets (timestamp of  *)
(* the entry the lookup found, -1 if none), gate (whether _ensure_api_key   *)
(* was called and what it returned) and e (what os.getenv returned then).   *)

Call(op, c, k, e, now) ==
    [op |-> op, ckey |-> <<>>, cache |-> c, key |-> k, t |-> now,
     ok |-> TRUE, status |-> 200, val |-> None,
     http |-> 0, gets |-> 0, sets |-> 0, hit |-> FALSE, ets |-> -1,
     gate |-> "skip", e |-> e]

EntryTs(c, key) == IF key \in DOMAIN c THEN c[key].ts ELSE -1

\* after "cached = _cache_get(cache_key)"
Looked(base, cache_key, g) ==
    [base EXCEPT !.ckey = cache_key, !.gets = 1, !.cache = g.cache,
                 !.ets = EntryTs(base.cache, cache_key)]

\* after "_ensure_api_key()"
Gated(rec, a) == [rec EXCEPT !.key = a.key, !.gate = IF a.ok THEN "yes" ELSE "no"]

\* "_cache_set(cache_key, val); return val"
Stored(rec, val) ==
    [rec EXCEPT !.cache = _cache_set(rec.cache, rec.ckey, val, rec.t),
                !.sets = rec.sets + 1, !.val = val]

\* "raise HTTPException(status_code=code)"
Raised(rec, code) == [rec EXCEPT !.ok = FALSE, !.status = code]

\* The cache keys, f"resolve:{handle}" and its siblings; s is a str's characters
resolve_key(s) == <<"r", "e", "s", "o", "l", "v", "e", ":">> \o s

stats_key(s) == <<"s", "t", "a", "t", "s", ":">> \o s

uploads_key(s) == <<"u", "p", "l", "o", "a", "d", "s", ":">> \o s

\* Mutant: the requested count is left out of the key
latest_key_no_count(s, max_results) == <<"l", "a", "t", "e", "s", "t", ":">> \o s

latest_key(s, max_results) ==
    <<"l", "a", "t", "e", "s", "t", ":">> \o s \o <<":">> \o IntToStr(max_results)

popular_key(s, max_results) ==
    <<"p", "o", "p", "u", "l", "a", "r", ":">> \o s \o <<":">> \o IntToStr(max_results)

\* main.py:121-125
fallback_map(handle, default) ==
    IF handle = <<"@", "U", "N", "B", "E", "Q", "U", "E", "M", "-", "o", "2", "w">> THEN <<"U", "C", "_", "d", "e", "m", "o", "_", "u", "n", "b", "e", "q", "u", "e", "m">>
    ELSE IF handle = <<"@", "B", "E", "Q", "U", "E", "M", "-", "g">> THEN <<"U", "C", "_", "d", "e", "m", "o", "_", "b", "e", "q", "u", "e", "m">>
    ELSE default

\* main.py:113-141: the handle is resolved through the cache, the fallback or
\* the upstream; base is the call so far
resolve_handle(base, handle, r) ==
    LET cache_key == resolve_key(handle.v)
        g == _cache_get(base.cache, cache_key, base.t)
        looked == Looked(base, cache_key, g)
    IN  IF Truthy(g.data) THEN [looked EXCEPT !.val = g.data, !.hit = TRUE]
        ELSE
          LET a == _ensure_api_key(base.key, base.e)
              gated == Gated(looked, a)
          IN  IF ~a.ok
              THEN Stored(gated,
                          Str(fallback_map(handle.v,
                                  <<"U", "C", "_", "d", "e", "m", "o", "_">>
                                      \o Lower(Strip(handle.v, "@")))))
              ELSE
                LET sent == [gated EXCEPT !.http = 1]
                IN  IF r.status # 200 THEN Raised(sent, 502)
                    ELSE IF r.items = <<>> THEN Raised(sent, 404)
                    ELSE Stored(sent, Str(r.items[1].id))

\* Mutant: the handle is looked at first, the explicit channel id only without one
resolve_channel_id_handle_first(handle, channel_id, c, k, e, now, r) ==
    LET base == Call("resolve", c, k, e, now)
    IN  IF Truthy(handle) THEN resolve_handle(base, handle, r)
        ELSE IF Truthy(channel_id) THEN [base EXCEPT !.val = channel_id]
        ELSE Raised(base, 400)

\* Mutant: a missing argument is reported as 404 instead of 400
resolve_channel_id_404(handle, channel_id, c, k, e, now, r) ==
    LET base == Call("resolve", c, k, e, now)
    IN  IF Truthy(channel_id) THEN [base EXCEPT !.val = channel_id]
        ELSE IF ~Truthy(handle) THEN Raised(base, 404)
        ELSE resolve_handle(base, handle, r)

resolve_channel_id(handle, channel_id, c, k, e, now, r) ==
    LET base == Call("resolve", c, k, e, now)
    IN  IF Truthy(channel_id) THEN [base EXCEPT !.val = channel_id]
        ELSE IF ~Truthy(handle) THEN Raised(base, 400)
        ELSE resolve_handle(base, handle, r)

\* dict.get(name, default) on the "statistics" object
StatGet(stats, name, default) ==
    IF name \in DOMAIN stats THEN stats[name] ELSE default

\* The result keeps subscriberCount, viewCount, videoCount and title; the
\* thumbnails, customUrl and description are copied through unchanged.
get_channel_statistics(channel_id, c, k, e, now, r) ==
    LET base == Call("stats", c, k, e, now)
        cache_key == stats_key(channel_id.v)
        g == _cache_get(c, cache_key, now)
        looked == Looked(base, cache_key, g)
    IN  IF Truthy(g.data) THEN [looked EXCEPT !.val = g.data, !.hit = TRUE]
        ELSE
          LET a == _ensure_api_key(k, e)
              gated == Gated(looked, a)
          IN  IF ~a.ok
              THEN Stored(gated, Dict([subscriberCount |-> 12345, viewCount |-> 987654,
                                       videoCount |-> 2, title |-> "Demo Channel"]))
              ELSE
                LET sent == [gated EXCEPT !.http = 1]
                IN  IF r.status # 200 THEN Raised(sent, 502)
                    ELSE IF r.items = <<>> THEN Raised(sent, 404)
                    ELSE
                      LET item == r.items[1]
                          stats == item.statistics
                      IN  Stored(sent,
                              Dict([subscriberCount |-> StatGet(stats, "subscriberCount", 0),
                                    viewCount |-> StatGet(stats, "viewCount", 0),
                                    videoCount |-> StatGet(stats, "videoCount", 0),
                                    title |-> item.title]))

get_uploads_playlist_id(channel_id, c, k, e, now, r) ==
    LET base == Call("uploads", c, k, e, now)
        cache_key == uploads_key(channel_id.v)
        g == _cache_get(c, cache_key, now)
        looked == Looked(base, cache_key, g)
    IN  IF Truthy(g.data) THEN [looked EXCEPT !.val = g.data, !.hit = TRUE]
        ELSE
          LET a == _ensure_api_key(k, e)
              gated == Gated(looked, a)
          IN  IF ~a.ok THEN Stored(gated, Str(<<"P", "L", "_", "d", "e", "m", "o", "_">> \o channel_id.v))
              ELSE
                LET sent == [gated EXCEPT !.http = 1]
                IN  IF r.status # 200 THEN Raised(sent, 502)
                    ELSE IF r.items = <<>> THEN sent
                    ELSE Stored(sent, r.items[1].uploads)

\* A video is its id and its viewCount, <<n>> or <<>> when the key is absent;
\* title, thumbnail and publishedAt are copied through unchanged.
DemoLatest(max_results) ==
    [i \in 1..max_results |->
        [id |-> <<"d", "e", "m", "o", "_", "v", "i", "d", "e", "o", "_">> \o IntToStr(i), viewCount |-> <<0>>]]

get_latest_videos(channel_id, max_results, c, k, e, now, r) ==
    LET base == Call("latest", c, k, e, now)
        cache_key == latest_key(channel_id.v, max_results)
        g == _cache_get(c, cache_key, now)
        looked == Looked(base, cache_key, g)
    IN  IF Truthy(g.data) THEN [looked EXCEPT !.val = g.data, !.hit = TRUE]
        ELSE
          LET a == _ensure_api_key(k, e)
              gated == Gated(looked, a)
          IN  IF ~a.ok THEN Stored(gated, List(DemoLatest(max_results)))
              ELSE
                LET sent == [gated EXCEPT !.http = 1]
                IN  IF r.status # 200 THEN Raised(sent, 502)
                    ELSE Stored(sent,
                             List([i \in 1..Len(r.items) |->
                                     [id |-> r.items[i].videoId, viewCount |-> <<>>]]))

DemoPopular(max_results) ==
    [i \in 1..max_results |->
        [id |-> <<"p", "o", "p", "u", "l", "a", "r", "_", "d", "e", "m", "o", "_">> \o IntToStr(i),
         viewCount |-> <<1000 * (max_results - i + 1)>>]]

\* x goes after every element whose key is not smaller: equal keys keep their order
RECURSIVE InsertDesc(_, _)
InsertDesc(x, s) ==
    IF s = <<>> THEN <<x>>
    ELSE IF Head(s).viewCount[1] >= x.viewCount[1]
         THEN <<Head(s)>> \o InsertDesc(x, Tail(s))
         ELSE <<x>> \o s

\* list.sort(key=viewCount, reverse=True): descending and stable
RECURSIVE SortDesc(_)
SortDesc(s) ==
    IF s = <<>> THEN <<>>
    ELSE InsertDesc(s[Len(s)], SortDesc(SubSeq(s, 1, Len(s) - 1)))

\* s[:n]
SliceTo(s, n) ==
    IF n >= 0 THEN SubSeq(s, 1, Min(n, Len(s)))
    ELSE SubSeq(s, 1, Len(s) + n)

\* main.py:282: the video ids of the search items, those without one left out
\* (an absent or empty videoId is <<>>)
RECURSIVE VideoIdsOf(_)
VideoIdsOf(items) ==
    IF items = <<>> THEN <<>>
    ELSE IF Head(items).videoId # <<>>
         THEN <<Head(items).videoId>> \o VideoIdsOf(Tail(items))
         ELSE VideoIdsOf(Tail(items))

SearchIds(r) == VideoIdsOf(r.items)

\* Mutant: a failed videos lookup is sent a second time before giving up
popular_live_retry(gated, max_results, r, r2) ==
    LET sent == [gated EXCEPT !.http = 1]
    IN  IF r.status # 200 THEN Raised(sent, 502)
        ELSE
          LET ids == SearchIds(r)
          IN  IF ids = <<>> THEN [sent EXCEPT !.val = List(<<>>)]
              ELSE
                IF r2.status # 200 THEN Raised([sent EXCEPT !.http = 3], 502)
                ELSE
                  LET enriched ==
                        [i \in 1..Len(r2.items) |->
                            [id |-> r2.items[i].id,
                             viewCount |-> <<r2.items[i].viewCount>>]]
                      popular == SliceTo(SortDesc(enriched), max_results)
                  IN  Stored([sent EXCEPT !.http = 2], List(popular))

\* Mutant: the videos lookup is sent even when the search found no video id
popular_live_always_lookup(gated, max_results, r, r2) ==
    LET sent == [gated EXCEPT !.http = 1]
    IN  IF r.status # 200 THEN Raised(sent, 502)
        ELSE
          LET sent2 == [sent EXCEPT !.http = 2]
          IN  IF r2.status # 200 THEN Raised(sent2, 502)
              ELSE
                LET enriched ==
                      [i \in 1..Len(r2.items) |->
                          [id |-> r2.items[i].id,
                           viewCount |-> <<r2.items[i].viewCount>>]]
                    popular == SliceTo(SortDesc(enriched), max_results)
                IN  Stored(sent2, List(popular))

\* main.py:269-308: r answers the search, r2 the videos lookup; gated is the
\* call so far
popular_live(gated, max_results, r, r2) ==
    LET sent == [gated EXCEPT !.http = 1]
    IN  IF r.status # 200 THEN Raised(sent, 502)
        ELSE
          LET ids == SearchIds(r)
          IN  IF ids = <<>> THEN [sent EXCEPT !.val = List(<<>>)]
              ELSE
                LET sent2 == [sent EXCEPT !.http = 2]
                IN  IF r2.status # 200 THEN Raised(sent2, 502)
                    ELSE
                      LET enriched ==
                            [i \in 1..Len(r2.items) |->
                                [id |-> r2.items[i].id,
                                 viewCount |-> <<r2.items[i].viewCount>>]]
                          popular == SliceTo(SortDesc(enriched), max_results)
                      IN  Stored(sent2, List(popular))

get_popular_videos(channel_id, max_results, c, k, e, now, r, r2) ==
    LET base == Call("popular", c, k, e, now)
        cache_key == popular_key(channel_id.v, max_results)
        g == _cache_get(c, cache_key, now)
        looked == Looked(base, cache_key, g)
    IN  IF Truthy(g.data) THEN [looked EXCEPT !.val = g.data, !.hit = TRUE]
        ELSE
          LET a == _ensure_api_key(k, e)
              gated == Gated(looked, a)
          IN  IF ~a.ok THEN Stored(gated, List(DemoPopular(max_results)))
              ELSE popular_live(gated, max_results, r, r2)

-----------------------------------------------------------------------------
(* Requests and the environment *)

\* what a client may send as handle, channelId and maxResults
HandleValues == {None, Str(<<"@", "A">>)}
ChannelIdValues == {Str(<<>>), Str(<<"X">>)}
MaxResultsValues == {-1, 1, 13}

\* what os.getenv("YOUTUBE_API_KEY") may return: None when unset, or a credential
EnvValues == {None, Str(<<"K">>)}

\* how far the clock moves in one step: to the end of a TTL window, or just past it
ClockSteps == {CACHE_TTL_SECONDS, CACHE_TTL_SECONDS + 1}

\* The answers to draw for a call: the call is first evaluated on a failure
\* answer; if it sent nothing (probe.http < n) the answer is never read.
Answers(probe, n, S) == IF probe.http < n THEN {UpstreamFailure} ELSE S

-----------------------------------------------------------------------------
(* History kept for the properties *)

RECURSIVE FetchedAfter(_, _)
FetchedAfter(f, lg) ==
    IF lg = <<>> THEN f
    ELSE LET rec == Head(lg)
             f1 == IF rec.ok /\ rec.http > 0
                   THEN DictPut(f, rec.ckey, [t |-> rec.t, val |-> rec.val])
                   ELSE f
         IN  FetchedAfter(f1, Tail(lg))

ResolveAfter(h, lg) ==
    IF lg # <<>> /\ lg[1].op = "resolve" /\ lg[1].ckey # <<>>
    THEN DictPut(h, lg[1].ckey,
                 [t |-> lg[1].t, ok |-> lg[1].ok, val |-> lg[1].val,
                  http |-> lg[1].http,
                  ets |-> EntryTs(lg[1].cache, lg[1].ckey)])
    ELSE h

-----------------------------------------------------------------------------
(* The state machine *)

NoRequest == [op |-> "none", handle |-> None, channelId |-> None, maxResults |-> 6]

Init ==
    /\ _cache = <<>>
    /\ env \in EnvValues
    /\ YOUTUBE_API_KEY = env          \* main.py:75, read once at import
    /\ clock = 0
    /\ req = NoRequest
    /\ log = <<>>
    /\ resp = [status |-> 0, body |-> None]
    /\ fetched = <<>>
    /\ lastResolve = <<>>
    /\ nreq = 0
    /\ nticks = 0
    /\ threads = <<>>
    /\ written = <<>>
    /\ trial = <<>>

\* The handler ends: lg holds its upstream client calls, the last of which
\* carries the cache and the credential it leaves behind.
Reply(rq, lg, status, body) ==
    /\ req' = rq
    /\ log' = lg
    /\ resp' = [status |-> status, body |-> body]
    /\ _cache' = IF lg = <<>> THEN _cache ELSE lg[Len(lg)].cache
    /\ YOUTUBE_API_KEY' = IF lg = <<>> THEN YOUTUBE_API_KEY ELSE lg[Len(lg)].key
    /\ fetched' = FetchedAfter(fetched, lg)
    /\ lastResolve' = ResolveAfter(lastResolve, lg)
    /\ nreq' = nreq + 1
    /\ UNCHANGED <<env, clock, nticks, threads, written, trial>>

\* Mutant: the handler swallows the exception and answers with what it has
Abort_partial(rq, lg) == Reply(rq, lg, 200, None)

\* An HTTPException raised by the last call of lg reaches the client as is.
Abort(rq, lg) == Reply(rq, lg, lg[Len(lg)].status, None)

\* The outcomes of a call, one per answer the upstream may give; c and k are the
\* cache and the credential the call starts from.
ResolveCalls(handle, channel_id, c, k) ==
    LET probe == resolve_channel_id(handle, channel_id, c, k, env, clock, UpstreamFailure)
    IN  {resolve_channel_id(handle, channel_id, c, k, env, clock, r) :
            r \in Answers(probe, 1, ResolveResponses)}

StatsCalls(cid, c, k) ==
    LET probe == get_channel_statistics(cid, c, k, env, clock, UpstreamFailure)
    IN  {get_channel_statistics(cid, c, k, env, clock, r) :
            r \in Answers(probe, 1, StatsResponses)}

UploadsCalls(cid, c, k) ==
    LET probe == get_uploads_playlist_id(cid, c, k, env, clock, UpstreamFailure)
    IN  {get_uploads_playlist_id(cid, c, k, env, clock, r) :
            r \in Answers(probe, 1, UploadsResponses)}

\* the search is sent with maxResults = max_results
LatestCalls(cid, max_results, c, k) ==
    LET probe == get_latest_videos(cid, max_results, c, k, env, clock, UpstreamFailure)
    IN  {get_latest_videos(cid, max_results, c, k, env, clock, r) :
            r \in Answers(probe, 1, SearchResponses(max_results))}

\* the search is sent with maxResults = 25, the videos lookup with the ids found
PopularCalls(cid, max_results, c, k) ==
    LET probe == get_popular_videos(cid, max_results, c, k, env, clock,
                                    UpstreamFailure, UpstreamFailure)
    IN  UNION {
          LET probe2 == get_popular_videos(cid, max_results, c, k, env, clock, r,
                                           UpstreamFailure)
          IN  {get_popular_videos(cid, max_results, c, k, env, clock, r, r2) :
                  r2 \in Answers(probe2, 2, VideosResponses(SearchIds(r)))} :
          r \in Answers(probe, 1, SearchResponses(25))}

\* GET /api/youtube/overview: maxResults is declared Query(ge=1, le=12), so the
\* framework answers 422 without calling the handler when it is out of range
youtube_overview(handle, channelId, maxResults) ==
    /\ nreq < MaxRequests
    /\ LET rq == [op |-> "overview", handle |-> handle, channelId |-> channelId,
                  maxResults |-> maxResults]
       IN  IF maxResults < 1 \/ maxResults > 12
           THEN Reply(rq, <<>>, 422, None)
           ELSE
             \E a \in ResolveCalls(handle, channelId, _cache, YOUTUBE_API_KEY) :
               IF ~a.ok THEN Abort(rq, <<a>>)
               ELSE
                 \E b \in StatsCalls(a.val, a.cache, a.key) :
                   IF ~b.ok THEN Abort(rq, <<a, b>>)
                   ELSE
                     \E c \in LatestCalls(a.val, maxResults, b.cache, b.key) :
                       IF ~c.ok THEN Abort(rq, <<a, b, c>>)
                       ELSE
                         \E d \in PopularCalls(a.val, maxResults, c.cache, c.key) :
                           IF ~d.ok THEN Abort(rq, <<a, b, c, d>>)
                           ELSE Reply(rq, <<a, b, c, d>>, 200,
                                      Dict([channelId |-> a.val, stats |-> b.val,
                                            latest |-> c.val, popular |-> d.val]))

\* GET /api/youtube/subscribers
youtube_subscribers(handle, channelId) ==
    /\ nreq < MaxRequests
    /\ LET rq == [op |-> "subscribers", handle |-> handle, channelId |-> channelId,
                  maxResults |-> 6]
       IN  \E a \in ResolveCalls(handle, channelId, _cache, YOUTUBE_API_KEY) :
             IF ~a.ok THEN Abort(rq, <<a>>)
             ELSE
               \E b \in StatsCalls(a.val, a.cache, a.key) :
                 IF ~b.ok THEN Abort(rq, <<a, b>>)
                 ELSE Reply(rq, <<a, b>>, 200,
                            Dict([channelId |-> a.val,
                                  subscriberCount |->
                                      StatGet(b.val.v, "subscriberCount", 0)]))

\* GET /api/youtube/videos/latest: maxResults is a plain int parameter
youtube_latest(handle, channelId, maxResults) ==
    /\ nreq < MaxRequests
    /\ LET rq == [op |-> "latest", handle |-> handle, channelId |-> channelId,
                  maxResults |-> maxResults]
       IN  \E a \in ResolveCalls(handle, channelId, _cache, YOUTUBE_API_KEY) :
             IF ~a.ok THEN Abort(rq, <<a>>)
             ELSE
               \E b \in LatestCalls(a.val, maxResults, a.cache, a.key) :
                 IF ~b.ok THEN Abort(rq, <<a, b>>)
                 ELSE Reply(rq, <<a, b>>, 200,
                            Dict([channelId |-> a.val, videos |-> b.val]))

\* GET /api/youtube/videos/popular: maxResults is a plain int parameter
youtube_popular(handle, channelId, maxResults) ==
    /\ nreq < MaxRequests
    /\ LET rq == [op |-> "popular", handle |-> handle, channelId |-> channelId,
                  maxResults |-> maxResults]
       IN  \E a \in ResolveCalls(handle, channelId, _cache, YOUTUBE_API_KEY) :
             IF ~a.ok THEN Abort(rq, <<a>>)
             ELSE
               \E b \in PopularCalls(a.val, maxResults, a.cache, a.key) :
                 IF ~b.ok THEN Abort(rq, <<a, b>>)
                 ELSE Reply(rq, <<a, b>>, 200,
                            Dict([channelId |-> a.val, videos |-> b.val]))

\* a direct call of get_uploads_playlist_id(channel_id); no endpoint uses it
CallUploads(channel_id) ==
    /\ nreq < MaxRequests
    /\ LET rq == [op |-> "uploads", handle |-> None, channelId |-> channel_id,
                  maxResults |-> 6]
       IN  \E a \in UploadsCalls(channel_id, _cache, YOUTUBE_API_KEY) :
             IF ~a.ok THEN Abort(rq, <<a>>) ELSE Reply(rq, <<a>>, 200, a.val)

\* time passes; the clock starts with the first request, and nothing is observed
\* after the last one
Tick ==
    /\ 0 < nreq /\ nreq < MaxRequests
    /\ nticks < MaxTicks
    /\ nticks' = nticks + 1
    /\ \E d \in ClockSteps : clock' = clock + d
    /\ UNCHANGED <<_cache, YOUTUBE_API_KEY, env, req, log, resp, fetched, lastResolve,
                   nreq, threads, written, trial>>

\* the operator sets, changes or removes the credential in the environment
SetEnv ==
    /\ nreq < MaxRequests
    /\ \E v \in EnvValues \ {env} : env' = v
    /\ UNCHANGED <<_cache, YOUTUBE_API_KEY, clock, req, log, resp, fetched,
                   lastResolve, nreq, nticks, threads, written, trial>>

Next ==
    \/ \E h \in HandleValues, c \in ChannelIdValues, m \in MaxResultsValues :
           youtube_overview(h, c, m)
    \/ \E h \in HandleValues, c \in ChannelIdValues : youtube_subscribers(h, c)
    \/ \E h \in HandleValues, c \in ChannelIdValues, m \in MaxResultsValues :
           youtube_latest(h, c, m)
    \/ \E h \in HandleValues, c \in ChannelIdValues, m \in MaxResultsValues :
           youtube_popular(h, c, m)
    \/ \E c \in ChannelIdValues : CallUploads(c)
    \/ Tick
    \/ SetEnv

Spec == Init /\ [][Next]_vars

-----------------------------------------------------------------------------
(* Concurrent requests.  The handlers are plain "def" functions, which the  *)
(* framework runs on a thread pool, so the _cache_get and _cache_set calls  *)
(* of simultaneous requests interleave.  A step is one operation on the     *)
(* shared dict or one reading of the clock: dict.get, dict.pop and the item *)
(* assignment are each atomic in the interpreter; everything between them   *)
(* works on the thread's locals.                                            *)

MaxOps == 2

Threads == {1, 2}

\* the keys the threads use and the data they store
CacheKeys == {stats_key(<<"X">>), stats_key(<<"Y">>)}
CacheData == {Str(<<"a">>), Str(<<"b">>)}

NoEntry == [ts |-> -1, data |-> None]

\* a thread between two cache calls: ops counts the calls it has made, ret is
\* what its last _cache_get returned
IdleThread == [pc |-> "idle", key |-> <<>>, entry |-> NoEntry, ret |-> None, ops |-> 0]

\* the variables of the request handlers
handlerVars ==
    <<YOUTUBE_API_KEY, env, req, log, resp, fetched, lastResolve, nreq>>

\* the state after import, before any request
Imported ==
    /\ _cache = <<>>
    /\ YOUTUBE_API_KEY = None
    /\ env = None
    /\ clock = 0
    /\ req = NoRequest
    /\ log = <<>>
    /\ resp = [status |-> 0, body |-> None]
    /\ fetched = <<>>
    /\ lastResolve = <<>>
    /\ nreq = 0
    /\ nticks = 0

CacheInit ==
    /\ Imported
    /\ threads = [t \in Threads |-> IdleThread]
    /\ written = <<>>
    /\ trial = <<>>

\* _cache_get, main.py:84-86: entry = _cache.get(key); if not entry: return None
GetLookup(t, key) ==
    /\ threads[t].pc = "idle"
    /\ threads[t].ops < MaxOps
    /\ threads' = [threads EXCEPT ![t] =
          IF key \in DOMAIN _cache
          THEN [pc |-> "get_check", key |-> key, entry |-> _cache[key],
                ret |-> None, ops |-> threads[t].ops + 1]
          ELSE [IdleThread EXCEPT !.ops = threads[t].ops + 1]]
    /\ UNCHANGED <<_cache, clock, nticks, written, trial, handlerVars>>

\* _cache_get, main.py:87 and 90: the age test on the entry read before, with the
\* time as it is now
GetCheck(t) ==
    /\ threads[t].pc = "get_check"
    /\ threads' = [threads EXCEPT ![t] =
          IF clock - threads[t].entry.ts > CACHE_TTL_SECONDS
          THEN [threads[t] EXCEPT !.pc = "get_pop"]
          ELSE [IdleThread EXCEPT !.ops = threads[t].ops,
                                  !.ret = threads[t].entry.data]]
    /\ UNCHANGED <<_cache, clock, nticks, written, trial, handlerVars>>

\* _cache_get, main.py:88-89: _cache.pop(key, None); return None
GetPop(t) ==
    /\ threads[t].pc = "get_pop"
    /\ _cache' = DictPop(_cache, threads[t].key)
    /\ threads' = [threads EXCEPT ![t] = [IdleThread EXCEPT !.ops = threads[t].ops]]
    /\ UNCHANGED <<clock, nticks, written, trial, handlerVars>>

\* _cache_set, main.py:94, right-hand side: {"ts": time.time(), "data": data}
SetBuild(t, key, data) ==
    /\ threads[t].pc = "idle"
    /\ threads[t].ops < MaxOps
    /\ threads' = [threads EXCEPT ![t] =
          [pc |-> "set_store", key |-> key, entry |-> [ts |-> clock, data |-> data],
           ret |-> None, ops |-> threads[t].ops + 1]]
    /\ UNCHANGED <<_cache, clock, nticks, written, trial, handlerVars>>

\* Mutant: the entry found under the key is updated in place, field by field, and
\* the thread is interrupted after the first field
SetStore_inplace(t) ==
    /\ threads[t].pc = "set_store"
    /\ LET key == threads[t].key
           e == threads[t].entry
       IN  /\ _cache' = DictPut(_cache, key,
                  IF key \in DOMAIN _cache
                  THEN [ts |-> e.ts, data |-> _cache[key].data]
                  ELSE e)
           /\ written' = DictPut(written, key,
                  [entry |-> e, by |-> t,
                   pending |-> {u \in Threads \ {t} :
                                  threads[u].pc = "set_store" /\ threads[u].key = key},
                   raced |-> key \in DOMAIN written /\ t \in written[key].pending])
    /\ threads' = [threads EXCEPT ![t] = [IdleThread EXCEPT !.ops = threads[t].ops]]
    /\ UNCHANGED <<clock, nticks, trial, handlerVars>>

\* _cache_set, main.py:94, the assignment: _cache[key] = <the dict built>.
\* written remembers the entry, its writer, the threads whose own store to the key
\* was still to come, and whether this writer was one of those at the store before.
SetStore(t) ==
    /\ threads[t].pc = "set_store"
    /\ LET key == threads[t].key
       IN  /\ _cache' = DictPut(_cache, key, threads[t].entry)
           /\ written' = DictPut(written, key,
                  [entry |-> threads[t].entry, by |-> t,
                   pending |-> {u \in Threads \ {t} :
                                  threads[u].pc = "set_store" /\ threads[u].key = key},
                   raced |-> key \in DOMAIN written /\ t \in written[key].pending])
    /\ threads' = [threads EXCEPT ![t] = [IdleThread EXCEPT !.ops = threads[t].ops]]
    /\ UNCHANGED <<clock, nticks, trial, handlerVars>>

\* time passes while the threads run
CacheTick ==
    /\ nticks < MaxTicks
    /\ nticks' = nticks + 1
    /\ \E d \in ClockSteps : clock' = clock + d
    /\ UNCHANGED <<_cache, threads, written, trial, handlerVars>>

CacheNext ==
    \/ \E t \in Threads, k \in CacheKeys : GetLookup(t, k)
    \/ \E t \in Threads : GetCheck(t)
    \/ \E t \in Threads : GetPop(t)
    \/ \E t \in Threads, k \in CacheKeys, d \in CacheData : SetBuild(t, k, d)
    \/ \E t \in Threads : SetStore(t)
    \/ CacheTick

CacheSpec == CacheInit /\ [][CacheNext]_vars

-----------------------------------------------------------------------------
(* get_popular_videos on its own: one live call on an empty cache, for every *)
(* answer of the search and of the videos lookup and for the max_results a   *)
(* caller may pass.                                                          *)

MaxPool == 3

\* what youtube_popular may pass on as max_results
TrialMaxResults == {-1, 0, 1, 2, 6}

\* the search answers: an error, the n newest videos, or one item that is not a
\* video (no videoId)
TrialSearchResponses ==
    {UpstreamFailure, [status |-> 200, items |-> <<[videoId |-> <<>>]>>]}
        \cup {[status |-> 200, items |-> Newest(n)] : n \in 0..MaxPool}

PopularTrials ==
    UNION {
      {[r |-> r, r2 |-> r2, max_results |-> m, done |-> FALSE,
        out |-> Call("popular", <<>>, None, None, 0)] :
          r2 \in VideosResponses(SearchIds(r)), m \in TrialMaxResults} :
      r \in TrialSearchResponses}

PopularInit ==
    /\ Imported
    /\ threads = <<>>
    /\ written = <<>>
    /\ trial \in PopularTrials

\* get_popular_videos("X", max_results) with a credential and an empty cache
ApplyPopular ==
    /\ ~trial.done
    /\ trial' = [trial EXCEPT
          !.done = TRUE,
          !.out = get_popular_videos(Str(<<"X">>), trial.max_results, <<>>,
                                     Str(<<"K">>), Str(<<"K">>), 0, trial.r, trial.r2)]
    /\ UNCHANGED <<_cache, clock, nticks, threads, written, handlerVars>>

PopularNext == ApplyPopular

PopularSpec == PopularInit /\ [][PopularNext]_vars

-----------------------------------------------------------------------------
(* The cache keys on their own: the keys of two (category, parameters)       *)
(* pairs, and a value stored under the first and looked up under the second. *)

MaxIdLen == 3

Categories == {"resolve", "stats", "uploads", "latest", "popular"}

\* handles and channel ids are arbitrary strings: they may hold ":" and digits
KeyChars == {":", "1"}
KeyIds == UNION {[1..n -> KeyChars] : n \in 0..MaxIdLen}
KeyMaxResults == {-1, 1, 11}

\* what a key is built from: the category, the handle or channel id, and
\* max_results for the two list categories (0 stands for "no such parameter")
KeyParams ==
    {[cat |-> c, id |-> s, max_results |-> m] :
        c \in {"latest", "popular"}, s \in KeyIds, m \in KeyMaxResults}
    \cup {[cat |-> c, id |-> s, max_results |-> 0] :
        c \in {"resolve", "stats", "uploads"}, s \in KeyIds}

\* the cache_key each client function builds, main.py:114, 145, 181, 205, 251
cache_key(p) ==
    CASE p.cat = "resolve" -> resolve_key(p.id)
      [] p.cat = "stats" -> stats_key(p.id)
      [] p.cat = "uploads" -> uploads_key(p.id)
      [] p.cat = "latest" -> latest_key(p.id, p.max_results)
      [] p.cat = "popular" -> popular_key(p.id, p.max_results)

KeyInit ==
    /\ Imported
    /\ threads = <<>>
    /\ written = <<>>
    /\ trial \in {[a |-> a, b |-> b, done |-> FALSE, ka |-> <<>>, kb |-> <<>>,
                    got |-> None] : a \in KeyParams, b \in KeyParams}

\* _cache_set under the key of a, then _cache_get under the key of b
ApplyKeys ==
    /\ ~trial.done
    /\ LET ka == cache_key(trial.a)
           kb == cache_key(trial.b)
           stored == _cache_set(<<>>, ka, Str(<<"v">>), 0)
       IN  trial' = [trial EXCEPT !.done = TRUE, !.ka = ka, !.kb = kb,
                                  !.got = _cache_get(stored, kb, 0).data]
    /\ UNCHANGED <<_cache, clock, nticks, threads, written, handlerVars>>

KeyNext == ApplyKeys

KeySpec == KeyInit /\ [][KeyNext]_vars

-----------------------------------------------------------------------------
(* resolve_channel_id on its own, with no credential: a first call on an     *)
(* empty cache and a second call for the same handle on the cache the first  *)
(* one left, at once, one TTL later or just after that.                      *)

MaxHandleLen == 3

HandleChars == {"@", "A", "b"}

\* the non-empty handles: short strings, and the two handles of fallback_map
TrialHandles ==
    UNION {[1..n -> HandleChars] : n \in 1..MaxHandleLen}
        \cup {<<"@", "U", "N", "B", "E", "Q", "U", "E", "M", "-", "o", "2", "w">>,
               <<"@", "B", "E", "Q", "U", "E", "M", "-", "g">>}

FallbackInit ==
    /\ Imported
    /\ threads = <<>>
    /\ written = <<>>
    /\ trial \in {[handle |-> h, calls |-> 0,
                    first |-> Call("resolve", <<>>, None, None, 0),
                    second |-> Call("resolve", <<>>, None, None, 0)] : h \in TrialHandles}

\* resolve_channel_id(handle=h) with no credential and an empty cache
ResolveFirst ==
    /\ trial.calls = 0
    /\ trial' = [trial EXCEPT
          !.calls = 1,
          !.first = resolve_channel_id(Str(trial.handle), None, <<>>, None, None, 0,
                                       UpstreamFailure)]
    /\ UNCHANGED <<_cache, clock, nticks, threads, written, handlerVars>>

\* resolve_channel_id(handle=h) again, still with no credential
ResolveAgain ==
    /\ trial.calls = 1
    /\ \E now \in {0} \cup ClockSteps :
          trial' = [trial EXCEPT
              !.calls = 2,
              !.second = resolve_channel_id(Str(trial.handle), None, trial.first.cache,
                                            trial.first.key, None, now, UpstreamFailure)]
    /\ UNCHANGED <<_cache, clock, nticks, threads, written, handlerVars>>

FallbackNext == ResolveFirst \/ ResolveAgain

FallbackSpec == FallbackInit /\ [][FallbackNext]_vars

-----------------------------------------------------------------------------
(* Properties *)

Endpoints == {"overview", "subscribers", "latest", "popular"}

\* the upstream requests sent by the calls of lg
RECURSIVE Http(_)
Http(lg) == IF lg = <<>> THEN 0 ELSE Head(lg).http + Http(Tail(lg))

\* this step serves a request
Served == nreq' = nreq + 1

\* C1: a cache lookup never returns a value stored more than CACHE_TTL_SECONDS
\* before the lookup; a lookup that finds such an entry returns nothing, the
\* operation goes on to recompute (credential check, then fallback or upstream),
\* and the cache it leaves holds no stale entry for the key.
C1_Freshness ==
    \A i \in 1..Len(log) :
        LET rec == log[i]
        IN  /\ rec.hit => (rec.ets >= 0 /\ rec.t - rec.ets <= CACHE_TTL_SECONDS)
            /\ (rec.ets >= 0 /\ rec.t - rec.ets > CACHE_TTL_SECONDS) =>
                  /\ ~rec.hit
                  /\ rec.gate # "skip"
                  /\ EntryTs(rec.cache, rec.ckey) \in {-1, rec.t}

\* a lookup found an expired entry and the value was recomputed
C1_Witness ==
    \E i \in 1..Len(log) :
        /\ log[i].ets >= 0
        /\ log[i].t - log[i].ets > CACHE_TTL_SECONDS
        /\ log[i].ok /\ ~log[i].hit /\ log[i].sets = 1

\* C2 as stated: two resolve calls for the same handle no more than a TTL apart
\* return the same identifier and send at most one upstream request together.
C2_TwoResolves ==
    [][Served =>
        \A i \in 1..Len(log') :
            LET rec == log'[i]
            IN  (/\ rec.op = "resolve"
                 /\ rec.ckey \in DOMAIN lastResolve
                 /\ rec.t - lastResolve[rec.ckey].t <= CACHE_TTL_SECONDS) =>
                    LET prev == lastResolve[rec.ckey]
                    IN  /\ prev.ok /\ rec.ok
                        /\ rec.val = prev.val
                        /\ prev.http + rec.http <= 1]_vars

\* C2 amended: if a resolve call for a handle returned an identifier, a later call
\* for that handle made while the cache entry the first call stored or read is
\* at most CACHE_TTL_SECONDS old returns the same identifier and sends no
\* upstream request, so the two calls send at most one together.
C2_ResolveCached ==
    [][Served =>
        \A i \in 1..Len(log') :
            LET rec == log'[i]
            IN  (/\ rec.op = "resolve"
                 /\ rec.ckey \in DOMAIN lastResolve
                 /\ lastResolve[rec.ckey].ok
                 /\ rec.t - lastResolve[rec.ckey].ets <= CACHE_TTL_SECONDS) =>
                    LET prev == lastResolve[rec.ckey]
                    IN  /\ rec.ok
                        /\ rec.val = prev.val
                        /\ rec.http = 0
                        /\ prev.http + rec.http <= 1]_vars

\* a second resolve of a handle, made exactly one TTL after the identifier was
\* fetched from the upstream, was served from the cache
C2_Witness ==
    /\ log # <<>>
    /\ log[1].op = "resolve" /\ log[1].hit
    /\ log[1].t = log[1].ets + CACHE_TTL_SECONDS
    /\ log[1].ckey \in DOMAIN fetched

\* C3 as stated: once a fetch for a key has succeeded, every call for that key
\* within the TTL returns the fetched value and sends no upstream request,
\* whatever the value.
C3_FetchedIsServed ==
    [][Served =>
        \A i \in 1..Len(log') :
            LET rec == log'[i]
            IN  (/\ rec.ckey \in DOMAIN fetched
                 /\ rec.t - fetched[rec.ckey].t <= CACHE_TTL_SECONDS) =>
                    /\ rec.ok
                    /\ rec.val = fetched[rec.ckey].val
                    /\ rec.http = 0]_vars

\* C4 as stated: get_latest_videos and get_popular_videos are only ever called
\* with max_results in 1..12.
C4_MaxResultsInRange ==
    \A i \in 1..Len(log) :
        log[i].op \in {"latest", "popular"} =>
            (1 <= req.maxResults /\ req.maxResults <= 12)

\* C5 as stated: the list returned by get_latest_videos and get_popular_videos
\* has at most max_results entries.
C5_AtMostMaxResults ==
    \A i \in 1..Len(log) :
        (log[i].op \in {"latest", "popular"} /\ log[i].ok) =>
            Len(log[i].val.v) <= req.maxResults

\* C6 as stated: _ensure_api_key returns true exactly when the environment holds
\* a non-empty credential at the time of the call.
C6_GateReflectsEnv ==
    \A i \in 1..Len(log) :
        log[i].gate # "skip" => ((log[i].gate = "yes") <=> Truthy(log[i].e))

\* C7 as stated: a request sends at most 3 upstream requests.
C7_AtMostThreeCalls == req.op \in Endpoints => Http(log) <= 3

\* C7 amended: a request sends at most 5 upstream requests (overview: resolve,
\* statistics, latest search, popular search and videos lookup); subscribers and
\* latestVideos send at most 2, popularVideos at most 3.
C7_AtMostFiveCalls ==
    req.op \in Endpoints =>
        /\ Http(log) <= 5
        /\ req.op \in {"subscribers", "latest"} => Http(log) <= 2
        /\ req.op = "popular" => Http(log) <= 3

\* an overview that sent all five upstream requests
C7_Witness == req.op = "overview" /\ resp.status = 200 /\ Http(log) = 5

\* C8: resolve_channel_id called with a non-empty channel_id returns it unchanged,
\* sends no upstream request, does not look at the credential and neither reads
\* nor writes the cache, whatever the handle.
C8_ExplicitIdBypasses ==
    [][(/\ Served
        /\ req'.op \in Endpoints
        /\ log' # <<>>
        /\ Truthy(req'.channelId)) =>
            LET rec == log'[1]
            IN  /\ rec.op = "resolve"
                /\ rec.ok
                /\ rec.val = req'.channelId
                /\ rec.http = 0 /\ rec.gets = 0 /\ rec.sets = 0
                /\ rec.gate = "skip"
                /\ rec.cache = _cache
                /\ rec.key = YOUTUBE_API_KEY]_vars

\* a request with both a handle and a channel id was resolved to the channel id
\* while the cache held entries
C8_Witness ==
    /\ req.op \in Endpoints
    /\ Truthy(req.handle) /\ Truthy(req.channelId)
    /\ log # <<>>
    /\ log[1].op = "resolve" /\ log[1].val = req.channelId
    /\ Http(log) = 0 /\ fetched # <<>>

\* C9: with neither a handle nor a channel id, resolve_channel_id raises the 400
\* error without reading or writing the cache and without an upstream request,
\* and the request ends there with status 400.
C9_MissingArgument ==
    [][(/\ Served
        /\ req'.op \in Endpoints
        /\ log' # <<>>
        /\ ~Truthy(req'.handle) /\ ~Truthy(req'.channelId)) =>
            LET rec == log'[1]
            IN  /\ Len(log') = 1
                /\ rec.op = "resolve"
                /\ ~rec.ok /\ rec.status = 400
                /\ rec.http = 0 /\ rec.gets = 0 /\ rec.sets = 0
                /\ rec.gate = "skip"
                /\ rec.cache = _cache
                /\ _cache' = _cache
                /\ resp'.status = 400]_vars

\* a request without handle and channel id was refused while the cache held entries
C9_Witness ==
    /\ req.op \in Endpoints
    /\ ~Truthy(req.handle) /\ ~Truthy(req.channelId)
    /\ resp.status = 400
    /\ _cache # <<>>

\* C10: when an upstream client call of a request fails (400, 404 or 502), it is
\* the last call of the request, it was sent once, and the request fails with
\* that status and no body; a request that succeeds made all its calls.
C10_FailFast ==
    req.op \in Endpoints =>
        /\ \A i \in 1..Len(log) :
              ~log[i].ok =>
                  /\ i = Len(log)
                  /\ log[i].status \in {400, 404, 502}
                  /\ resp.status = log[i].status
                  /\ resp.body = None
                  /\ log[i].http <= (IF log[i].op = "popular" THEN 2 ELSE 1)
        /\ resp.status = 200 =>
              /\ \A i \in 1..Len(log) : log[i].ok
              /\ Len(log) = (CASE req.op = "overview" -> 4 [] OTHER -> 2)

\* the statistics call of an overview failed after the resolution had succeeded
C10_Witness ==
    /\ req.op = "overview"
    /\ Len(log) = 2
    /\ log[1].ok /\ log[1].http = 1
    /\ ~log[2].ok /\ log[2].http = 1

\* C11 as stated: two overview requests with identical handle, channelId and
\* maxResults, both made while the environment holds no credential, get
\* identical responses, whatever the cache holds and however long apart they are.
C11_FallbackDeterministic ==
    [][(/\ Served
        /\ req.op = "overview"
        /\ req' = req
        /\ \A i \in 1..Len(log) : ~Truthy(log[i].e)
        /\ ~Truthy(env)) =>
            resp' = resp]_vars

\* C12: under every interleaving of concurrent _cache_get and _cache_set calls,
\* every entry of the cache is a complete (timestamp, data) pair, exactly as one
\* _cache_set call built it, and it is the pair of the last call that stored to
\* the key; a store changes no other key.
C12_LastWriterWins ==
    /\ \A k \in DOMAIN _cache :
          /\ DOMAIN _cache[k] = {"ts", "data"}
          /\ k \in DOMAIN written
          /\ _cache[k] = written[k].entry
    /\ \A k \in DOMAIN written :
          /\ written[k].entry.ts \in 0..clock
          /\ written[k].entry.data \in CacheData

\* two threads were storing to the same key at once, with different data, and
\* the cache holds the entry of the one that stored last
C12_Witness ==
    \E k \in DOMAIN written :
        /\ written[k].raced
        /\ k \in DOMAIN _cache
        /\ _cache[k] = written[k].entry
        /\ \E u \in Threads \ {written[k].by} : threads[u].pc = "idle" /\ threads[u].ops > 0
        /\ \A t \in Threads : threads[t].pc = "idle"

\* C19 as stated: under every interleaving, a lookup only ever removes an entry
\* that is older than the TTL at the moment it is removed.
C19_OnlyExpiredEvicted ==
    [][\A k \in DOMAIN _cache :
          k \notin DOMAIN _cache' => clock - _cache[k].ts > CACHE_TTL_SECONDS]_vars

\* the pool of a trial as get_popular_videos holds it before sorting
TrialPool ==
    [i \in 1..Len(trial.r2.items) |->
        [id |-> trial.r2.items[i].id, viewCount |-> <<trial.r2.items[i].viewCount>>]]

\* every ordering of the pool
Rankings(pool) ==
    {[i \in 1..Len(pool) |-> pool[p[i]]] : p \in Permutations(1..Len(pool))}

\* where a video stands in the pool (ids are unique)
Position(pool, v) == CHOOSE i \in 1..Len(pool) : pool[i].id = v.id

\* s is the pool by descending view count, equal counts in pool order
IsRankedStable(pool, s) ==
    \A i, j \in 1..Len(s) :
        i < j =>
            \/ s[i].viewCount[1] > s[j].viewCount[1]
            \/ /\ s[i].viewCount[1] = s[j].viewCount[1]
               /\ Position(pool, s[i]) < Position(pool, s[j])

\* the first n entries of s: all of s when it has fewer, none when n is not positive
FirstN(s, n) == SubSeq(s, 1, IF n < 0 THEN 0 ELSE Min(n, Len(s)))

\* C13 as stated: the live result of get_popular_videos is the pool returned by
\* the upstream sorted by view count in descending order, equal counts in pool
\* order, truncated to its first max_results entries.
C13_RankedAndTruncated ==
    (trial.done /\ trial.out.ok /\ trial.out.http = 2) =>
        \E s \in Rankings(TrialPool) :
            /\ IsRankedStable(TrialPool, s)
            /\ trial.out.val = List(FirstN(s, trial.max_results))

\* C14: in live mode, when the search yields no video id (no item, or only
\* items without one), get_popular_videos returns the empty list after that one
\* upstream request: the videos lookup is not sent, and nothing is stored.
C14_EmptyPoolOneCall ==
    (/\ trial.done
     /\ trial.r.status = 200
     /\ \A i \in 1..Len(trial.r.items) : trial.r.items[i].videoId = <<>>) =>
        /\ trial.out.ok
        /\ trial.out.gate = "yes"
        /\ trial.out.val = List(<<>>)
        /\ trial.out.http = 1

\* a search that answered with one item that is not a video, after the call
C14_Witness ==
    /\ trial.done
    /\ trial.r.status = 200
    /\ Len(trial.r.items) = 1
    /\ trial.r.items[1].videoId = <<>>
    /\ trial.out.ok /\ trial.out.http = 1

\* C15: a client call changes no entry of the cache but that of its own key; its
\* lookup removes that entry exactly when it is older than the TTL (after which
\* the key is absent, or holds what the call stored at its own time), and a call
\* that stores nothing after a hit or a miss leaves the cache as it was; no entry
\* leaves the cache in any other way.
C15_LazyEviction ==
    [][Served =>
        \A i \in 1..Len(log') :
            LET rec == log'[i]
                before == IF i = 1 THEN _cache ELSE log'[i - 1].cache
                after == rec.cache
                expired == /\ rec.ckey \in DOMAIN before
                           /\ rec.t - before[rec.ckey].ts > CACHE_TTL_SECONDS
            IN  /\ \A k \in (DOMAIN before) \ {rec.ckey} :
                      k \in DOMAIN after /\ after[k] = before[k]
                /\ (DOMAIN after) \ {rec.ckey} \subseteq DOMAIN before
                /\ expired =>
                      /\ rec.gets = 1 /\ ~rec.hit
                      /\ IF rec.sets = 0 THEN rec.ckey \notin DOMAIN after
                         ELSE after[rec.ckey].ts = rec.t
                /\ (~expired /\ rec.sets = 0) => after = before
                /\ (rec.ckey \in DOMAIN before /\ rec.ckey \notin DOMAIN after) => expired]_vars

\* a lookup found an expired entry and removed it, the call then failed, and the
\* other entries, as old as that one, are still in the cache
C15_Witness ==
    \E i \in 1..Len(log) :
        /\ log[i].ets >= 0
        /\ log[i].t - log[i].ets > CACHE_TTL_SECONDS
        /\ ~log[i].ok /\ log[i].sets = 0
        /\ log[i].ckey \notin DOMAIN log[i].cache
        /\ \E k \in DOMAIN log[i].cache :
              log[i].t - log[i].cache[k].ts > CACHE_TTL_SECONDS

\* C16: two keys are equal only if they were built for the same category, the
\* same handle or channel id and the same max_results, so a value stored for one
\* (category, parameters) pair is returned by a lookup for that pair and by no
\* lookup for another.
C16_KeysInjective ==
    trial.done =>
        /\ (trial.ka = trial.kb) <=> (trial.a = trial.b)
        /\ (trial.got # None) <=> (trial.a = trial.b)
        /\ trial.got # None => trial.got = Str(<<"v">>)

\* a value stored for the latest 11 videos of channel "1" was looked up for the
\* latest video of channel "1:1", whose key differs only after "latest:1:1"
C16_Witness ==
    /\ trial.done
    /\ trial.a = [cat |-> "latest", id |-> <<"1">>, max_results |-> 11]
    /\ trial.b = [cat |-> "latest", id |-> <<"1", ":", "1">>, max_results |-> 1]
    /\ trial.got = None

\* C17 as stated: with no credential, resolve_channel_id(handle=h) returns
\* "UC_demo_" followed by h without its leading "@" and in lower case, for every
\* handle h, and a repeated call returns the same identifier; neither call sends
\* an upstream request.
C17_FallbackIdentifier ==
    /\ trial.calls >= 1 =>
          /\ trial.first.ok
          /\ trial.first.http = 0
          /\ trial.first.val =
                Str(<<"U", "C", "_", "d", "e", "m", "o", "_">>
                        \o Lower(LStrip(trial.handle, "@")))
    /\ trial.calls = 2 =>
          /\ trial.second.ok
          /\ trial.second.http = 0
          /\ trial.second.val = trial.first.val

\* C18 as stated: a fallback value stored for a key while no credential was
\* available is what a later call for that key returns, without an upstream
\* request, when a credential is available and the entry is at most
\* CACHE_TTL_SECONDS old.
C18_CachedFallbackServed ==
    [][Served =>
        \A i \in 1..Len(log), j \in 1..Len(log') :
            (/\ log[i].gate = "no" /\ log[i].sets = 1
             /\ log'[j].ckey = log[i].ckey
             /\ Truthy(log'[j].e)
             /\ log'[j].t - log[i].t <= CACHE_TTL_SECONDS) =>
                /\ log'[j].hit
                /\ log'[j].val = log[i].val
                /\ log'[j].http = 0]_vars

\* C20 as stated: after a client call whose upstream request failed (non-200
\* status, or no item for resolve and statistics) the cache holds no entry for
\* the call's key and every other entry is as before the call, and the next call
\* for that key sends the upstream request again.
C20_FailureLeavesNoEntry ==
    [][Served =>
        \A j \in 1..Len(log') :
            LET rec == log'[j]
                before == IF j = 1 THEN _cache ELSE log'[j - 1].cache
            IN  /\ (~rec.ok /\ rec.http > 0) =>
                      /\ rec.ckey \notin DOMAIN rec.cache
                      /\ \A k \in (DOMAIN before) \ {rec.ckey} :
                            k \in DOMAIN rec.cache /\ rec.cache[k] = before[k]
                      /\ (DOMAIN rec.cache) \ {rec.ckey} \subseteq DOMAIN before
                /\ \A i \in 1..Len(log) :
                      (~log[i].ok /\ log[i].http > 0 /\ rec.ckey = log[i].ckey) =>
                          rec.http >= 1]_vars

====
